---- MODULE Spec2Model ----
(***************************************************************************)
(* A model of orbis (src/bot.py): the start-up sequence, the two text      *)
(* classifiers contains_too_much_caps and contains_emojis, and the         *)
(* OrbisClient.on_message coroutine.                                       *)
(*                                                                         *)
(* A text is a sequence of Unicode code points (naturals).  A float such   *)
(* as CAPS_THRESHOLD is a pair <<num, den>>: for the letter counts and the *)
(* thresholds used here the IEEE comparison caps_count / alpha_count > t   *)
(* agrees with the comparison of the rationals (3 / 5 rounds to the same   *)
(* double as the literal 0.6).                                             *)
(***************************************************************************)
EXTENDS Integers, Sequences, FiniteSets, TLC

VARIABLES
    pc,               \* position of the module's top-level code
    configFile,       \* config.json: "missing", or the mapping it holds
    token,            \* os.getenv('DISCORD_TOKEN')
    CAPS_THRESHOLD,   \* module global, <<num, den>> once read
    MIN_ALPHA_CHARS,  \* module global
    stdout,           \* the diagnostics printed so far
    exitCode,         \* "alive", or the exit status of the process
    sessionStarted,   \* client.run(...) was called
    tpc,              \* per on_message invocation: its position
    msg,              \* per on_message invocation: the message it handles
    calls,            \* per on_message invocation: its channel.send calls
    text,             \* argument of a classifier applied on its own
    result            \* what the classifier returned (or raised)

vars == <<pc, configFile, token, CAPS_THRESHOLD, MIN_ALPHA_CHARS, stdout,
          exitCode, sessionStarted, tpc, msg, calls, text, result>>

startupVars == <<pc, configFile, token, CAPS_THRESHOLD, MIN_ALPHA_CHARS,
                 stdout, exitCode, sessionStarted>>
taskVars == <<tpc, msg, calls>>
fnVars == <<text, result>>

-----------------------------------------------------------------------------
(* Bounds *)

MaxMsgLen == 2     \* longest message text handled one at a time
NumTasks == 2      \* concurrent on_message invocations
MaxCapsLen == 6    \* longest text given to contains_too_much_caps alone
MaxEmojiLen == 7   \* longest markup text given to contains_emojis alone
MaxWideLen == 2    \* longest text with non-ASCII code points given to it

-----------------------------------------------------------------------------
(* Texts *)

\* All sequences over alphabet of length 0..n.
Texts(alphabet, n) == UNION {[1..k -> alphabet] : k \in 0..n}

\* 'A' 'a' '1' and U+2160 ROMAN NUMERAL ONE.
CapsAlphabet == {65, 97, 49, 8544}

\* '<' 'a' ':' '1' '>'.
MarkupAlphabet == {60, 97, 58, 49, 62}

\* Code points at and next to the ends of the ranges of EMOJI_PATTERN.
WideAlphabet ==
    { 9409, 9410, 9986, 10160, 127569, 127570,
      127743, 127744, 128511, 128512, 128591, 128592,
      128639, 128640, 128767, 128768,
      129279, 129280, 129535, 129536 }

\* 'A' 'a', U+1F600 GRINNING FACE, U+FF21 FULLWIDTH LATIN CAPITAL LETTER A.
MsgAlphabet == {65, 97, 128512, 65313}

\* The texts of the concurrent invocations: "", "A", "a", U+1F600.
ConcTexts == {<<>>, <<65>>, <<97>>, <<128512>>}

-----------------------------------------------------------------------------
(* str.isupper() and str.isalpha() of one character, on the blocks the     *)
(* alphabets above draw from.                                              *)

\* Letters (general category L*).
isalpha(c) ==
    \/ c \in 65..90          \* A-Z
    \/ c \in 97..122         \* a-z
    \/ c \in 19968..40959    \* CJK unified ideographs (Lo)
    \/ c \in 65313..65338    \* fullwidth A-Z
    \/ c \in 65345..65370    \* fullwidth a-z

\* Characters with the Uppercase property: Lu, and Other_Uppercase such as
\* the Roman numerals (Nl) and the circled capital letters (So).
isupper(c) ==
    \/ c \in 65..90          \* A-Z
    \/ c \in 65313..65338    \* fullwidth A-Z
    \/ c \in 8544..8559      \* U+2160..U+216F Roman numerals
    \/ c \in 9398..9423      \* U+24B6..U+24CF circled capital letters

\* sum(1 for char in text if char.isupper())
RECURSIVE caps_count(_)
caps_count(s) ==
    IF s = <<>> THEN 0
    ELSE (IF isupper(Head(s)) THEN 1 ELSE 0) + caps_count(Tail(s))

\* sum(1 for char in text if char.isalpha())
RECURSIVE alpha_count(_)
alpha_count(s) ==
    IF s = <<>> THEN 0
    ELSE (IF isalpha(Head(s)) THEN 1 ELSE 0) + alpha_count(Tail(s))

\* A comparison that also flags a ratio equal to the threshold.
RatioAtLeast(c, a, t) == c * t[2] >= t[1] * a

\* caps_count / alpha_count > CAPS_THRESHOLD, on floats.
RatioAbove(c, a, t) == c * t[2] > t[1] * a

\* contains_too_much_caps(text): "True", "False", or "ZeroDivisionError" when
\* the division is reached with alpha_count = 0 (`and` evaluates its right
\* operand only when the left one is true).
contains_too_much_caps(s) ==
    LET c == caps_count(s)
        a == alpha_count(s)
    IN  IF a >= MIN_ALPHA_CHARS
        THEN IF a = 0 THEN "ZeroDivisionError"
             ELSE IF RatioAbove(c, a, CAPS_THRESHOLD) THEN "True"
             ELSE "False"
        ELSE "False"

-----------------------------------------------------------------------------
(* contains_emojis *)

\* The character class of EMOJI_PATTERN: six inclusive ranges.
EmojiRanges ==
    { <<128512, 128591>>,   \* U+1F600-U+1F64F
      <<127744, 128511>>,   \* U+1F300-U+1F5FF
      <<128640, 128767>>,   \* U+1F680-U+1F6FF
      <<129280, 129535>>,   \* U+1F900-U+1F9FF
      <<9986, 10160>>,      \* U+2702-U+27B0
      <<9410, 127569>> }    \* U+24C2-U+1F251

InEmojiClass(c) == \E r \in EmojiRanges : r[1] <= c /\ c <= r[2]

\* EMOJI_PATTERN.search(text): a run of one or more class members anywhere.
EmojiPatternSearch(s) == \E i \in 1..Len(s) : InEmojiClass(s[i])

\* [a-zA-Z0-9_] and [0-9] of the custom-emoji pattern (ASCII only).
IsNameChar(c) == c \in 97..122 \/ c \in 65..90 \/ c \in 48..57 \/ c = 95
IsDigit(c) == c \in 48..57

At(s, i) == IF i \in 1..Len(s) THEN s[i] ELSE -1

\* The index just after the longest run of name characters starting at i.
RECURSIVE NameRunEnd(_, _)
NameRunEnd(s, i) == IF IsNameChar(At(s, i)) THEN NameRunEnd(s, i + 1) ELSE i

\* The index just after the longest run of digits starting at i.
RECURSIVE DigitRunEnd(_, _)
DigitRunEnd(s, i) == IF IsDigit(At(s, i)) THEN DigitRunEnd(s, i + 1) ELSE i

\* The rest of the pattern with [0-9]* in place of [0-9]+: an empty numeric
\* id is accepted.
MatchFromColonEmptyId(s, i) ==
    /\ At(s, i) = 58
    /\ LET j == NameRunEnd(s, i + 1)
       IN  /\ j > i + 1
           /\ At(s, j) = 58
           /\ At(s, DigitRunEnd(s, j + 1)) = 62

\* The rest of <[a]?:[a-zA-Z0-9_]+:[0-9]+> from the first ':' at index i.
\* Each repetition is greedy; the character after a run is outside its
\* class, so giving characters back can never make the next literal match.
MatchFromColon(s, i) ==
    /\ At(s, i) = 58
    /\ LET j == NameRunEnd(s, i + 1)
       IN  /\ j > i + 1
           /\ At(s, j) = 58
           /\ LET k == DigitRunEnd(s, j + 1)
              IN  k > j + 1 /\ At(s, k) = 62

\* The pattern matched at index i: '<', then [a]? tried first with the 'a'
\* and then without it.
CustomEmojiMatchAt(s, i) ==
    /\ At(s, i) = 60
    /\ \/ At(s, i + 1) = 97 /\ MatchFromColon(s, i + 2)
       \/ MatchFromColon(s, i + 1)

\* re.search(r"<[a]?:[a-zA-Z0-9_]+:[0-9]+>", text)
CustomEmojiSearch(s) == \E i \in 1..Len(s) : CustomEmojiMatchAt(s, i)

contains_emojis(s) ==
    IF EmojiPatternSearch(s) THEN TRUE
    ELSE IF CustomEmojiSearch(s) THEN TRUE
    ELSE FALSE

-----------------------------------------------------------------------------
(* Start-up: the module's top-level code and the __main__ block *)

PLACEHOLDER == "YOUR_BOT_TOKEN_HERE"

\* What os.getenv('DISCORD_TOKEN') may return: None, or a string.
Tokens == {"None", "", PLACEHOLDER, "a-real-token"}

\* config.json: whether the file exists and, per key, the set holding the
\* value the mapping gives it (empty when the mapping lacks the key).
DefaultCapsThreshold == <<3, 5>>
DefaultMinAlphaChars == 5

ConfigMappings ==
    [exists : {TRUE},
     caps_threshold : {{}, {<<1, 2>>}, {<<1, 1>>}},
     min_alpha_chars : {{}, {0}, {1}}]

MissingFile == [exists |-> FALSE, caps_threshold |-> {}, min_alpha_chars |-> {}]

ConfigFiles == {MissingFile} \cup ConfigMappings

\* CONFIG.get(key, default)
ConfigGet(mapping, key, default) ==
    IF mapping[key] = {} THEN default ELSE CHOOSE v \in mapping[key] : TRUE

Printed(line) == stdout' = Append(stdout, line)

\* with open(CONFIG_PATH) ... except FileNotFoundError: print; exit(1)
LoadConfig ==
    /\ pc = "load_config"
    /\ IF ~configFile.exists
       THEN /\ Printed("config_not_found")
            /\ exitCode' = "exit 1"
            /\ pc' = "exited"
       ELSE /\ pc' = "read_settings"
            /\ UNCHANGED <<stdout, exitCode>>
    /\ UNCHANGED <<configFile, token, CAPS_THRESHOLD, MIN_ALPHA_CHARS,
                   sessionStarted>>
    /\ UNCHANGED <<taskVars, fnVars>>

\* CAPS_THRESHOLD = CONFIG.get(...); MIN_ALPHA_CHARS = CONFIG.get(...)
ReadSettings ==
    /\ pc = "read_settings"
    /\ CAPS_THRESHOLD' =
           ConfigGet(configFile, "caps_threshold", DefaultCapsThreshold)
    /\ MIN_ALPHA_CHARS' =
           ConfigGet(configFile, "min_alpha_chars", DefaultMinAlphaChars)
    /\ pc' = "main"
    /\ UNCHANGED <<configFile, token, stdout, exitCode, sessionStarted>>
    /\ UNCHANGED <<taskVars, fnVars>>

\* A check that forgets the placeholder.
TokenRejectedUnlessPlaceholder(t) == t = "None" \/ t = ""

\* not TOKEN or TOKEN == "YOUR_BOT_TOKEN_HERE"
TokenRejected(t) == t = "None" \/ t = "" \/ t = PLACEHOLDER

\* The __main__ block: print the diagnostic and fall off the end of the
\* script, or build the client and call client.run.
Main ==
    /\ pc = "main"
    /\ IF TokenRejected(token)
       THEN /\ Printed("token_not_set")
            /\ exitCode' = "exit 0"
            /\ pc' = "exited"
            /\ UNCHANGED sessionStarted
       ELSE /\ sessionStarted' = TRUE
            /\ pc' = "running"
            /\ UNCHANGED <<stdout, exitCode>>
    /\ UNCHANGED <<configFile, token, CAPS_THRESHOLD, MIN_ALPHA_CHARS>>
    /\ UNCHANGED <<taskVars, fnVars>>

-----------------------------------------------------------------------------
(* OrbisClient.on_message *)

Tasks == 1..NumTasks

Messages(texts) ==
    [author : {"self", "other"},
     channel : {"text", "other"},
     mentioned : BOOLEAN,
     content : texts]

NoMessage == "none"

\* Where a run of the coroutine stops next, and the reply it passes to
\* message.channel.send on the way ("none": no call).
Return == [pc |-> "done", send |-> "none"]
Raise == [pc |-> "raised", send |-> "none"]
Await(kind) == [pc |-> "await_" \o kind, send |-> kind]

\* if self.user.mentioned_in(message): await message.channel.send(...)
MentionCheck(m) == IF m.mentioned THEN Await("ack") ELSE Return

\* if contains_emojis(content): await message.channel.send(...); return
EmojiCheck(m) ==
    IF contains_emojis(m.content) THEN Await("emoji") ELSE MentionCheck(m)

\* The emoji check placed before the caps check.
EmojiCheckFirst(m) ==
    IF contains_emojis(m.content) THEN Await("emoji")
    ELSE LET r == contains_too_much_caps(m.content)
         IN  IF r = "ZeroDivisionError" THEN Raise
             ELSE IF r = "True" THEN Await("caps")
             ELSE MentionCheck(m)

\* if contains_too_much_caps(content): await message.channel.send(...); return
CapsCheck(m) ==
    LET r == contains_too_much_caps(m.content)
    IN  IF r = "ZeroDivisionError" THEN Raise
        ELSE IF r = "True" THEN Await("caps")
        ELSE EmojiCheck(m)

\* The checks without the early return for the bot's own messages.
EntryWithoutSelfCheck(m) ==
    IF m.channel # "text" THEN Return ELSE CapsCheck(m)

\* The two early returns, then the checks.
Entry(m) ==
    IF m.author = "self" THEN Return
    ELSE IF m.channel # "text" THEN Return
    ELSE CapsCheck(m)

\* The caps branch without its return: the emoji check follows the send.
AfterCapsSendFallsThrough(m) == EmojiCheck(m)

\* The statement after each awaited send.
AfterCapsSend(m) == Return
AfterEmojiSend(m) == Return
AfterAckSend(m) == Return

\* The client library dispatches on_message for an inbound message.
Deliver(i, m) ==
    /\ pc = "running"
    /\ tpc[i] = "free"
    /\ tpc' = [tpc EXCEPT ![i] = "entry"]
    /\ msg' = [msg EXCEPT ![i] = m]
    /\ UNCHANGED <<calls, startupVars, fnVars>>

Proceed(i, next) ==
    /\ tpc' = [tpc EXCEPT ![i] = next.pc]
    /\ calls' = IF next.send = "none" THEN calls
                ELSE [calls EXCEPT ![i] = Append(@, next.send)]
    /\ UNCHANGED <<msg, startupVars, fnVars>>

\* A handler that classifies the text of whichever message was stored
\* last in an attribute shared by the invocations.
OnMessageSharedContent(i) ==
    /\ tpc[i] = "entry"
    /\ \E j \in Tasks :
           /\ tpc[j] # "free"
           /\ Proceed(i, Entry([msg[i] EXCEPT !.content = msg[j].content]))

\* The coroutine runs from its start to its first await, return or raise.
OnMessage(i) ==
    /\ tpc[i] = "entry"
    /\ Proceed(i, Entry(msg[i]))

\* The awaited send completes and the coroutine runs on.
Resume(i) ==
    /\ tpc[i] \in {"await_caps", "await_emoji", "await_ack"}
    /\ Proceed(i, CASE tpc[i] = "await_caps" -> AfterCapsSend(msg[i])
                    [] tpc[i] = "await_emoji" -> AfterEmojiSend(msg[i])
                    [] tpc[i] = "await_ack" -> AfterAckSend(msg[i]))

\* The awaited send fails: the exception leaves on_message.
SendFails(i) ==
    /\ tpc[i] \in {"await_caps", "await_emoji", "await_ack"}
    /\ Proceed(i, Raise)

\* The finished invocation is dropped.
Finish(i) ==
    /\ tpc[i] \in {"done", "raised"}
    /\ tpc' = [tpc EXCEPT ![i] = "free"]
    /\ msg' = [msg EXCEPT ![i] = NoMessage]
    /\ calls' = [calls EXCEPT ![i] = <<>>]
    /\ UNCHANGED <<startupVars, fnVars>>

-----------------------------------------------------------------------------
(* Specifications *)

NoTasks ==
    /\ tpc = [i \in Tasks |-> "free"]
    /\ msg = [i \in Tasks |-> NoMessage]
    /\ calls = [i \in Tasks |-> <<>>]

NoCall == text = <<>> /\ result = "none"

\* The process starts; its messages are handled one at a time.
Init ==
    /\ pc = "load_config"
    /\ configFile \in ConfigFiles
    /\ token \in Tokens
    /\ CAPS_THRESHOLD = "unset"
    /\ MIN_ALPHA_CHARS = "unset"
    /\ stdout = <<>>
    /\ exitCode = "alive"
    /\ sessionStarted = FALSE
    /\ NoTasks
    /\ NoCall

Next ==
    \/ LoadConfig
    \/ ReadSettings
    \/ Main
    \/ \E m \in Messages(Texts(MsgAlphabet, MaxMsgLen)) : Deliver(1, m)
    \/ OnMessage(1)
    \/ Resume(1)
    \/ SendFails(1)
    \/ Finish(1)

Spec == Init /\ [][Next]_vars

\* The session runs; messages are handled concurrently.
Running(files) ==
    /\ pc = "running"
    /\ configFile \in files
    /\ token = "a-real-token"
    /\ CAPS_THRESHOLD =
           ConfigGet(configFile, "caps_threshold", DefaultCapsThreshold)
    /\ MIN_ALPHA_CHARS =
           ConfigGet(configFile, "min_alpha_chars", DefaultMinAlphaChars)
    /\ stdout = <<>>
    /\ exitCode = "alive"
    /\ sessionStarted = TRUE

ConcConfigFiles ==
    {f \in ConfigMappings :
        f.caps_threshold = {} /\ f.min_alpha_chars \in {{0}, {1}}}

InitConc == Running(ConcConfigFiles) /\ NoTasks /\ NoCall

NextConc ==
    \E i \in Tasks :
        \/ \E m \in Messages(ConcTexts) : Deliver(i, m)
        \/ OnMessage(i)
        \/ Resume(i)
        \/ SendFails(i)
        \/ Finish(i)

SpecConc == InitConc /\ [][NextConc]_vars

\* contains_too_much_caps applied on its own.
ApplyCaps ==
    /\ result = "none"
    /\ result' = contains_too_much_caps(text)
    /\ UNCHANGED <<text, startupVars, taskVars>>

InitCaps ==
    /\ Running(ConfigMappings)
    /\ NoTasks
    /\ text \in Texts(CapsAlphabet, MaxCapsLen)
    /\ result = "none"

SpecCaps == InitCaps /\ [][ApplyCaps]_vars

\* contains_emojis applied on its own.
ApplyEmojis ==
    /\ result = "none"
    /\ result' = IF contains_emojis(text) THEN "True" ELSE "False"
    /\ UNCHANGED <<text, startupVars, taskVars>>

InitEmojis ==
    /\ Running({f \in ConfigMappings :
                   f.caps_threshold = {} /\ f.min_alpha_chars = {}})
    /\ NoTasks
    /\ text \in Texts(MarkupAlphabet, MaxEmojiLen)
                  \cup Texts(MarkupAlphabet \cup WideAlphabet, MaxWideLen)
    /\ result = "none"

SpecEmojis == InitEmojis /\ [][ApplyEmojis]_vars

-----------------------------------------------------------------------------
(* Properties of contains_too_much_caps, under SpecCaps *)

Applied == result # "none"

\* The letters and the uppercase letters of a text, as the specification
\* counts them.
Letters(s) == {i \in 1..Len(s) : isalpha(s[i])}
UppercaseLetters(s) == {i \in 1..Len(s) : isalpha(s[i]) /\ isupper(s[i])}

\* C5: whatever the configured minimum letter count, a text without any
\* alphabetic character makes contains_too_much_caps return False; it never
\* raises ZeroDivisionError.
C5_NoLettersIsFalse ==
    (Applied /\ Letters(text) = {}) => result = "False"

\* C10: every character counted in caps_count is also counted in
\* alpha_count, so caps_count <= alpha_count for every text and a character
\* that is uppercase but not alphabetic does not raise the ratio.
C10_CapsCountedAmongLetters ==
    Applied =>
        /\ caps_count(text) = Cardinality(UppercaseLetters(text))
        /\ caps_count(text) <= alpha_count(text)

\* The text with one more uppercase letter ('A').
OneMoreUppercase(s) == Append(s, 65)

\* C6, first part: with at least one letter, the result is True exactly when
\* alpha_count >= minAlpha and caps_count / alpha_count > threshold; fewer
\* than minAlpha letters are never flagged; a ratio equal to the threshold
\* is not flagged.
C6_Decision ==
    LET c == caps_count(text)
        a == alpha_count(text)
        num == CAPS_THRESHOLD[1]
        den == CAPS_THRESHOLD[2]
    IN  (Applied /\ a >= 1) =>
            /\ result \in {"True", "False"}
            /\ result = "True" <=> (a >= MIN_ALPHA_CHARS /\ c * den > num * a)
            /\ a < MIN_ALPHA_CHARS => result = "False"
            /\ c * den = num * a => result = "False"

\* A text whose ratio equals the threshold exactly and which, with one more
\* letter, has at least minAlpha letters.
C6_AtThreshold ==
    /\ Applied
    /\ alpha_count(text) >= 1
    /\ caps_count(text) * CAPS_THRESHOLD[2]
           = CAPS_THRESHOLD[1] * alpha_count(text)
    /\ alpha_count(text) + 1 >= MIN_ALPHA_CHARS

-----------------------------------------------------------------------------
(* Properties of contains_emojis, under SpecEmojis *)

\* The text has a code point in one of the six listed inclusive ranges.
HasListedCodePoint(s) ==
    \E i \in 1..Len(s) :
        \/ 128512 <= s[i] /\ s[i] <= 128591    \* U+1F600-U+1F64F
        \/ 127744 <= s[i] /\ s[i] <= 128511    \* U+1F300-U+1F5FF
        \/ 128640 <= s[i] /\ s[i] <= 128767    \* U+1F680-U+1F6FF
        \/ 129280 <= s[i] /\ s[i] <= 129535    \* U+1F900-U+1F9FF
        \/ 9986 <= s[i] /\ s[i] <= 10160       \* U+2702-U+27B0
        \/ 9410 <= s[i] /\ s[i] <= 127569      \* U+24C2-U+1F251

AsciiLetter(c) == (65 <= c /\ c <= 90) \/ (97 <= c /\ c <= 122)
AsciiDigit(c) == 48 <= c /\ c <= 57

\* The text has a substring '<', optional 'a', ':', n >= 1 characters of
\* [A-Za-z0-9_], ':', d >= 1 digits, '>'; the first ':' is at index p.
HasMarkupSubstring(s) ==
    \E p \in 2..Len(s), n \in 1..Len(s), d \in 1..Len(s) :
        /\ p + n + d + 2 <= Len(s)
        /\ \/ s[p - 1] = 60
           \/ p >= 3 /\ s[p - 1] = 97 /\ s[p - 2] = 60
        /\ s[p] = 58
        /\ \A x \in (p + 1)..(p + n) :
               AsciiLetter(s[x]) \/ AsciiDigit(s[x]) \/ s[x] = 95
        /\ s[p + n + 1] = 58
        /\ \A x \in (p + n + 2)..(p + n + d + 1) : AsciiDigit(s[x])
        /\ s[p + n + d + 2] = 62

\* C7: contains_emojis returns True exactly when the text has a code point
\* in a listed range or a custom-emoji markup substring; markup with an
\* empty numeric id ("<:a1:>") and plain ASCII text are not detected.
C7_EmojiDetection ==
    Applied =>
        /\ result = "True"
               <=> (HasListedCodePoint(text) \/ HasMarkupSubstring(text))
        /\ text = <<60, 58, 97, 49, 58, 62>> => result = "False"
        /\ (\A i \in 1..Len(text) : AsciiLetter(text[i]))
               => result = "False"

\* "<a:a:1>" is detected: the animated form, with no listed code point.
C7_Witness ==
    /\ Applied
    /\ text = <<60, 97, 58, 97, 58, 49, 62>>
    /\ ~HasListedCodePoint(text)
    /\ result = "True"

-----------------------------------------------------------------------------
(* Properties of on_message, under Spec (one invocation at a time) and     *)
(* SpecConc (concurrent invocations)                                       *)

\* The invocation has run: it is suspended at a send, or has ended.
Handled(i) == tpc[i] \notin {"free", "entry"}

Eligible(m) == m.author = "other" /\ m.channel = "text"
Shouting(m) == contains_too_much_caps(m.content) = "True"
HasEmoji(m) == contains_emojis(m.content)

\* C1: a message from another author in a text channel that is both
\* shouting and contains an emoji gets the caps warning only, mentioned or
\* not.
C1_CapsBeforeEmoji ==
    \A i \in Tasks :
        (Handled(i) /\ Eligible(msg[i]) /\ Shouting(msg[i]) /\ HasEmoji(msg[i]))
            => calls[i] = <<"caps">>

\* "A" followed by U+1F600, mentioning the bot: handled to the end.
C1_Witness ==
    /\ tpc[1] = "done"
    /\ Eligible(msg[1]) /\ Shouting(msg[1]) /\ HasEmoji(msg[1])
    /\ msg[1].content = <<65, 128512>>
    /\ msg[1].mentioned
    /\ calls[1] = <<"caps">>

\* C2: one invocation of on_message calls channel.send at most once.
C2_AtMostOneSend == \A i \in Tasks : Len(calls[i]) <= 1

\* An invocation that sent the caps warning has ended.
C2_Witness == tpc[1] = "done" /\ Len(calls[1]) = 1 /\ Shouting(msg[1])

\* C3: a message of the bot itself, or in a channel that is not a text
\* channel, gets no reply, whatever its text and mention flag.
C3_IgnoredMessages ==
    \A i \in Tasks :
        (Handled(i) /\ (msg[i].author = "self" \/ msg[i].channel # "text"))
            => (tpc[i] = "done" /\ calls[i] = <<>>)

\* The bot's own shouting, emoji-laden message that mentions the bot, in a
\* text channel, has been handled.
C3_Witness ==
    /\ tpc[1] = "done"
    /\ msg[1].author = "self" /\ msg[1].channel = "text"
    /\ Shouting(msg[1]) /\ HasEmoji(msg[1]) /\ msg[1].mentioned
    /\ calls[1] = <<>>

\* C4: a message from another author in a text channel that is neither
\* shouting nor contains an emoji gets exactly the acknowledgement when the
\* bot is mentioned, and nothing when it is not.
C4_CompliantMessages ==
    \A i \in Tasks :
        (Handled(i) /\ Eligible(msg[i]) /\ ~Shouting(msg[i]) /\ ~HasEmoji(msg[i]))
            => calls[i] = IF msg[i].mentioned THEN <<"ack">> ELSE <<>>

\* C9: the replies of every invocation are those its own message gets from
\* the handler run on it alone, whatever the other invocations hold or held.
C9_IndependentDecisions ==
    \A i \in Tasks :
        Handled(i) =>
            calls[i] = IF Entry(msg[i]).send = "none" THEN <<>>
                       ELSE <<Entry(msg[i]).send>>

\* Two invocations suspended at their sends with different replies.
C9_Witness ==
    /\ tpc[1] = "await_caps" /\ calls[1] = <<"caps">>
    /\ tpc[2] = "await_emoji" /\ calls[2] = <<"emoji">>

-----------------------------------------------------------------------------
(* Properties of the start-up, under Spec *)

TokenUsable == token # "None" /\ token # "" /\ token # "YOUR_BOT_TOKEN_HERE"

\* C8: the session is started only with the configuration file found and a
\* usable token; with an unusable token the diagnostic is printed, the
\* session is not started and the process ends normally; without the
\* configuration file the process exits with an error and no session.
C8_Startup ==
    /\ sessionStarted => (configFile.exists /\ TokenUsable)
    /\ (~TokenUsable /\ configFile.exists /\ pc \notin {"load_config", "read_settings", "main"})
           => /\ pc = "exited"
              /\ stdout = <<"token_not_set">>
              /\ exitCode = "exit 0"
    /\ (~configFile.exists /\ pc # "load_config")
           => /\ pc = "exited"
              /\ stdout = <<"config_not_found">>
              /\ exitCode = "exit 1"
    /\ (pc = "running") = sessionStarted

\* The placeholder token, with the configuration file found: the process
\* has ended.
C8_Witness ==
    /\ pc = "exited"
    /\ configFile.exists
    /\ token = "YOUR_BOT_TOKEN_HERE"
    /\ ~sessionStarted

====
